---- MODULE Spec2Model ----
(***************************************************************************)
(* otto (src/main.go): for every selected profile and every package that   *)
(* is not skipped, download, extract, locate, configure, build, install.   *)
(* Strings are sequences of one-character strings, so that HasPrefix,      *)
(* Contains, concatenation and path joining are computed, not assumed.     *)
(***************************************************************************)
EXTENDS Integers, Sequences, FiniteSets, TLC

\* ------------------------------------------------------------- bounds
MaxProfiles == 2
MaxPackages == 3

\* ------------------------------------------------------------ strings
Empty == <<>>

HasPrefix(s, p) ==
  /\ Len(p) <= Len(s)
  /\ SubSeq(s, 1, Len(p)) = p

Contains(s, sub) ==
  \E i \in 0..(Len(s) - Len(sub)) : SubSeq(s, i + 1, i + Len(sub)) = sub

Slash == <<"/">>

\* filepath.Join of two elements that are already clean: empty elements are
\* ignored, the others are joined by the separator.
Join(a, b) ==
  IF a = Empty THEN b
  ELSE IF b = Empty THEN a
  ELSE a \o Slash \o b

\* The characters used, in byte order (ioutil.ReadDir sorts by file name).
Alphabet ==
  <<"-", ".", "/", "2", "4", "=", "C", "E", "F", "I", "P", "R", "X",
    "a", "b", "c", "d", "e", "f", "g", "i", "j", "l", "n", "o", "p",
    "q", "r", "s", "t", "u", "w", "x", "z">>

Ord(c) == CHOOSE i \in 1..Len(Alphabet) : Alphabet[i] = c

RECURSIVE LexLess(_, _)
LexLess(a, b) ==
  IF b = Empty THEN FALSE
  ELSE IF a = Empty THEN TRUE
  ELSE IF Head(a) = Head(b) THEN LexLess(Tail(a), Tail(b))
  ELSE Ord(Head(a)) < Ord(Head(b))

\* ------------------------------------------------------ string values
s_src     == <<"s", "r", "c">>
s_tar_xz  == <<"t", "a", "r", ".", "x", "z">>
s_tar_gz  == <<"t", "a", "r", ".", "g", "z">>
s_zip     == <<"z", "i", "p">>
s_dot     == <<".">>
s_eq      == <<"=">>
s_xf      == <<"x", "f">>
s_C       == <<"-", "C">>
s_j       == <<"-", "j">>
s_2       == <<"2">>
s_4       == <<"4">>
s_install == <<"i", "n", "s", "t", "a", "l", "l">>
s_PREFIX  == <<"P", "R", "E", "F", "I", "X">>
s_prefixFlag == <<"-", "-", "p", "r", "e", "f", "i", "x", "=">>
s_dot_tar_xz == s_dot \o s_tar_xz
s_dot_tar_gz == s_dot \o s_tar_gz

\* Absolute output directory and the working directory the run starts in.
outDir  == <<"/", "o">>
startWd == <<"/", "w">>

\* Configure flags that occur in the configurations.
f_a  == <<"-", "-", "a">>
f_ab == <<"-", "-", "a", "b">>
f_c  == <<"-", "-", "c">>
f_d  == <<"-", "-", "d">>
f_pre    == <<"-", "-", "p", "r", "e">>
f_prefix == s_prefixFlag \o <<"/", "o", "/", "p">>

\* --------------------------------------------------- the configurations
\* Profile.Env is a map: a set of <<key, value>> pairs with distinct keys.
ProfilePool ==
  { [Name |-> <<"p">>,
     Env |-> { <<s_PREFIX, <<"/", "u">> >>, << <<"C", "C">>, <<"g">> >> },
     Configure |-> <<f_ab, f_c, f_prefix>>],
    [Name |-> s_src,
     Env |-> {},
     Configure |-> <<f_c, f_a, f_d>>] }

PackagePool ==
  { [Name |-> <<"a">>,
     Sources |-> <<"u", "/", "a">> \o s_dot_tar_gz,
     Format |-> Empty,
     Configure |-> <<f_ab, f_d>>,
     ConfigureBlacklist |-> <<f_a>>],
    [Name |-> <<"b">>,
     Sources |-> <<"u", "/", "b">> \o s_dot_tar_gz \o s_dot_tar_xz,
     Format |-> Empty,
     Configure |-> <<f_d, f_a>>,
     ConfigureBlacklist |-> <<f_pre, f_ab>>],
    [Name |-> <<"c">>,
     Sources |-> <<"u", "/", "c", ".", "z", "i", "p">>,
     Format |-> Empty,
     Configure |-> <<>>,
     ConfigureBlacklist |-> <<>>],
    [Name |-> <<"d">>,
     Sources |-> <<"u", "/", "d">> \o s_dot_tar_gz,
     Format |-> s_zip,
     Configure |-> <<f_c>>,
     ConfigureBlacklist |-> <<>>] }

\* Sequences of at most n elements of S with pairwise distinct names
\* (Profile and Package names are unique within a configuration).
DistinctSeqs(S, n) ==
  UNION { { s \in [1..m -> S] :
              \A i, j \in 1..m : i # j => s[i].Name # s[j].Name } : m \in 0..n }

Configs ==
  [Profiles : DistinctSeqs(ProfilePool, MaxProfiles),
   Packages : DistinctSeqs(PackagePool, MaxPackages)]

\* Values of the command-line flags; the empty string means "not given".
ProfileFlags     == {Empty, <<"p">>, s_src}
ResumeFlags      == {Empty, <<"b">>}
ConcurrencyFlags == {Empty, s_4}

\* HTTP status codes the transfer may report.
StatusCodes == {200, 204, 404}

\* Top-level directories an archive may unpack to.
ArchiveLayouts == { {}, { <<"x">> }, { <<"x">>, <<"a">> } }
\* -------------------------------------------------------------- state
VARIABLES
  pc,                   \* position of main
  profileArg,           \* *profileArg
  resumeArg,            \* *resumeArg
  concurrencyLevelArg,  \* *concurrencyLevelArg
  makeConcurrencyFlag,  \* the local computed at line 66
  config,               \* the Config read from the file
  pi,                   \* index of the current profile in config.Profiles
  ki,                   \* index of the current package in config.Packages
  skipping,             \* the per-profile skipping flag
  env,                  \* environment vector of the current package
  format,               \* archive format resolved for the current package
  srcDir,               \* located source root of the current package
  baseWd,               \* working directory saved before entering srcDir
  cwd,                  \* working directory of the process
  dirs,                 \* directories that exist below outDir
  files,                \* regular files that exist below outDir
  lastCmd,              \* the most recent call of command()
  trace                 \* every step taken so far, with its result

vars == <<pc, profileArg, resumeArg, concurrencyLevelArg, makeConcurrencyFlag,
          config, pi, ki, skipping, env, format, srcDir, baseWd, cwd, dirs,
          files, lastCmd, trace>>

args_vars  == <<profileArg, resumeArg, concurrencyLevelArg, makeConcurrencyFlag>>
pkg_locals == <<env, format, srcDir, baseWd>>
fs_vars    == <<dirs, files>>

\* ---------------------------------------------------- derived locals
profile == config.Profiles[pi]
pkg     == config.Packages[ki]

\* Lines 99-100.
SrcOf(p)    == Join(Join(outDir, s_src), p.Name)
PrefixOf(p) == Join(outDir, p.Name)
src    == SrcOf(profile)
prefix == PrefixOf(profile)

\* Line 134.
PkgSrcOf(p, k) == Join(SrcOf(p), k.Name)
pkgSrc == PkgSrcOf(profile, pkg)

\* Line 153: filepath.Join(pkgSrc, fmt.Sprintf("%s.%s", pkg.Name, format)).
PkgArchiveOf(p, k, f) == Join(PkgSrcOf(p, k), k.Name \o s_dot \o f)
pkgArchive == PkgArchiveOf(profile, pkg, format)

\* One step of the run: the operation, the profile and package it was made
\* for (pkg = 0 for a profile-level step), its result and, for a transfer,
\* the status code it reported.
Step(op, ok, status) ==
  [op |-> op, prof |-> pi, pkg |-> ki, ok |-> ok, status |-> status]

Ev(op, ok) == Step(op, ok, 0)

NoCmd == [exe |-> "", args |-> <<>>, env |-> <<>>, cwd |-> Empty]

\* command(exe, env, args...): the call as the child process sees it.
command(exe, e, a) == [exe |-> exe, args |-> a, env |-> e, cwd |-> cwd]
\* ------------------------------------------------- pure parts of main
\* Faulty variant of Has: a listed prefix matches only the identical string.
HasExact(bl, s) == \E i \in 1..Len(bl) : s = bl[i]

\* Blacklist.Has: s starts with one of the prefixes.
Has(bl, s) == \E i \in 1..Len(bl) : HasPrefix(s, bl[i])

\* The elements of seq that the blacklist does not have, in order.
RECURSIVE Surviving(_, _)
Surviving(bl, seq) ==
  IF seq = <<>> THEN <<>>
  ELSE IF Has(bl, Head(seq)) THEN Surviving(bl, Tail(seq))
  ELSE <<Head(seq)>> \o Surviving(bl, Tail(seq))

\* Lines 224-239: --prefix, then the profile's arguments and then the
\* package's arguments, each passed through the package's blacklist.
ConfigureArgs(p, k) ==
  <<s_prefixFlag \o PrefixOf(p)>>
    \o Surviving(k.ConfigureBlacklist, p.Configure)
    \o Surviving(k.ConfigureBlacklist, k.Configure)

\* Line 66: "-j" + (*concurrencyLevelArg), with the value the flag holds
\* when the line runs.
MakeConcurrencyFlag(level) == s_j \o level

\* Line 62: Default("2") is what Parse stores when -j is not given.
ParsedConcurrency(given) == IF given = Empty THEN s_2 ELSE given

\* Faulty variant of Selected: without a filter no profile is selected.
SelectedOnlyNamed(filter, p) == filter = p.Name

\* Faulty variant of Selected: the filter is not consulted.
SelectedAlways(filter, p) == TRUE

\* Line 92: the profile loop's filter, negated.
Selected(filter, p) == ~(filter # Empty /\ filter # p.Name)

\* Faulty variant of InitialSkipping: the resume name does not seed the flag.
InitialSkippingNever(resume) == FALSE

\* Faulty variant of InitialSkipping: every profile starts out skipping.
InitialSkippingAlways(resume) == TRUE

\* Lines 112-115.
InitialSkipping(resume) == resume # Empty

\* Faulty variant of NextSkipping: the flag is ignored.
NextSkippingNever(skip, k, resume) == FALSE

\* Faulty variant of NextSkipping: the flag is recomputed for every package.
NextSkippingRecomputed(skip, k, resume) == k.Name # resume

\* Lines 118-120.
NextSkipping(skip, k, resume) == IF k.Name = resume THEN FALSE ELSE skip

\* Faulty variant of ResolveFormat: the URL is tested for .tar.gz first.
ResolveFormatGzFirst(k) ==
  IF k.Format # Empty THEN [format |-> k.Format, ok |-> TRUE]
  ELSE IF Contains(k.Sources, s_dot_tar_gz) THEN [format |-> s_tar_gz, ok |-> TRUE]
  ELSE IF Contains(k.Sources, s_dot_tar_xz) THEN [format |-> s_tar_xz, ok |-> TRUE]
  ELSE [format |-> Empty, ok |-> FALSE]

\* Faulty variant of ResolveFormat: an unrecognised URL defaults to tar.gz.
ResolveFormatDefaultGz(k) ==
  IF k.Format # Empty THEN [format |-> k.Format, ok |-> TRUE]
  ELSE IF Contains(k.Sources, s_dot_tar_xz) THEN [format |-> s_tar_xz, ok |-> TRUE]
  ELSE [format |-> s_tar_gz, ok |-> TRUE]

\* Lines 142-151: the resolved format and whether resolution succeeded.
ResolveFormat(k) ==
  IF k.Format # Empty THEN [format |-> k.Format, ok |-> TRUE]
  ELSE IF Contains(k.Sources, s_dot_tar_xz) THEN [format |-> s_tar_xz, ok |-> TRUE]
  ELSE IF Contains(k.Sources, s_dot_tar_gz) THEN [format |-> s_tar_gz, ok |-> TRUE]
  ELSE [format |-> Empty, ok |-> FALSE]

\* Line 165.
StatusAccepted(code) == code = 200

\* Faulty variant of tarFlagsForFormat: any non-empty format is extracted.
tarFlagsForFormatAny(f) ==
  IF f # Empty THEN [flags |-> s_xf, ok |-> TRUE]
  ELSE [flags |-> Empty, ok |-> FALSE]

\* Lines 268-277.
tarFlagsForFormat(f) ==
  IF f = s_tar_gz THEN [flags |-> s_xf, ok |-> TRUE]
  ELSE IF f = s_tar_xz THEN [flags |-> s_xf, ok |-> TRUE]
  ELSE [flags |-> Empty, ok |-> FALSE]

\* Faulty variant of EnvVectors: PREFIX is put in front of the map's entries.
EnvVectorsPrefixFirst(p) ==
  LET n == Cardinality(p.Env)
      Orders == { o \in [1..n -> p.Env] : \A i, j \in 1..n : i # j => o[i] # o[j] }
  IN  { <<s_PREFIX \o s_eq \o PrefixOf(p)>>
          \o [i \in 1..n |-> o[i][1] \o s_eq \o o[i][2]] : o \in Orders }

\* Faulty variant of EnvVectors: the PREFIX entry is left out.
EnvVectorsNoPrefix(p) ==
  LET n == Cardinality(p.Env)
      Orders == { o \in [1..n -> p.Env] : \A i, j \in 1..n : i # j => o[i] # o[j] }
  IN  { [i \in 1..n |-> o[i][1] \o s_eq \o o[i][2]] : o \in Orders }

\* Lines 128-132: one entry per key of the map, in the order the map
\* iteration happens to produce, then PREFIX.
EnvVectors(p) ==
  LET n == Cardinality(p.Env)
      Orders == { o \in [1..n -> p.Env] : \A i, j \in 1..n : i # j => o[i] # o[j] }
  IN  { [i \in 1..n |-> o[i][1] \o s_eq \o o[i][2]]
          \o <<s_PREFIX \o s_eq \o PrefixOf(p)>> : o \in Orders }

\* os.MkdirAll: the path and every missing parent.
Ancestors(path) ==
  { SubSeq(path, 1, i) : i \in { j \in 1..Len(path) :
                                   j = Len(path) \/ path[j + 1] = "/" } }

\* What a failed MkdirAll may leave behind: the parents down to some depth.
PartialAncestors(path) ==
  { { a \in Ancestors(path) : Len(a) < n } : n \in 1..Len(path) }

\* ioutil.ReadDir: the names of the immediate children of dir.
ChildNames(dir, paths) ==
  { SubSeq(q, Len(dir) + 2, Len(q)) :
      q \in { r \in paths : /\ HasPrefix(r, dir \o Slash)
                            /\ ~Contains(SubSeq(r, Len(dir) + 2, Len(r)), Slash) } }

\* Lines 201-207: the first entry, in name order, that is a directory;
\* NoDir stands for the nil FileInfo the loop leaves when there is none.
NoDir == <<"/">>
FirstDir(dir) ==
  LET names == ChildNames(dir, dirs)
  IN  IF names = {} THEN NoDir
      ELSE CHOOSE d \in names : \A e \in names : ~LexLess(e, d)
\* ------------------------------------------------------------ actions
Init ==
  /\ pc = "flag"
  /\ profileArg = Empty
  /\ resumeArg = Empty
  /\ concurrencyLevelArg = Empty
  /\ makeConcurrencyFlag = Empty
  /\ config = [Profiles |-> <<>>, Packages |-> <<>>]
  /\ pi = 0
  /\ ki = 0
  /\ skipping = FALSE
  /\ env = <<>>
  /\ format = Empty
  /\ srcDir = Empty
  /\ baseWd = Empty
  /\ cwd = startWd
  /\ dirs = {}
  /\ files = {}
  /\ lastCmd = NoCmd
  /\ trace = <<>>

\* Faulty variant of Fatal: the failure is logged and the step is taken again.
LoggedOnly(steps) ==
  /\ pc' = pc
  /\ trace' = trace \o steps

\* log.Fatal: the step that failed is recorded and the process exits.
Fatal(steps) ==
  /\ pc' = "fatal"
  /\ trace' = trace \o steps

\* Line 66.
ComputeFlag ==
  /\ pc = "flag"
  /\ makeConcurrencyFlag' = MakeConcurrencyFlag(concurrencyLevelArg)
  /\ pc' = "parse"
  /\ UNCHANGED <<profileArg, resumeArg, concurrencyLevelArg, config, pi, ki,
                 skipping, pkg_locals, cwd, fs_vars, lastCmd, trace>>

\* Lines 68-72: app.Parse stores the flags, or the usage error is fatal.
Parse ==
  /\ pc = "parse"
  /\ \/ /\ \E pa \in ProfileFlags, ra \in ResumeFlags, ca \in ConcurrencyFlags :
             /\ profileArg' = pa
             /\ resumeArg' = ra
             /\ concurrencyLevelArg' = ParsedConcurrency(ca)
        /\ pc' = "readcfg"
        /\ trace' = trace \o <<Ev("Parse", TRUE)>>
     \/ /\ Fatal(<<Ev("Parse", FALSE)>>)
        /\ UNCHANGED <<profileArg, resumeArg, concurrencyLevelArg>>
  /\ UNCHANGED <<makeConcurrencyFlag, config, pi, ki, skipping, pkg_locals,
                 cwd, fs_vars, lastCmd>>

\* Lines 74-90: read and decode the configuration, absolutize outDir.
ReadConfig ==
  /\ pc = "readcfg"
  /\ \/ /\ \E c \in Configs : config' = c
        /\ pi' = 1
        /\ pc' = "profile"
        /\ trace' = trace \o <<Ev("ReadConfig", TRUE)>>
     \/ /\ Fatal(<<Ev("ReadConfig", FALSE)>>)
        /\ UNCHANGED <<config, pi>>
  /\ UNCHANGED <<args_vars, ki, skipping, pkg_locals, cwd, fs_vars, lastCmd>>

\* Lines 91-95: a profile the filter does not select.
SkipProfile ==
  /\ pc = "profile"
  /\ pi <= Len(config.Profiles)
  /\ ~Selected(profileArg, profile)
  /\ pi' = pi + 1
  /\ UNCHANGED <<pc, args_vars, config, ki, skipping, pkg_locals, cwd,
                 fs_vars, lastCmd, trace>>

\* Lines 97-115: a selected profile: its two directories, then skipping.
EnterProfile ==
  /\ pc = "profile"
  /\ pi <= Len(config.Profiles)
  /\ Selected(profileArg, profile)
  /\ \/ /\ \E left \in PartialAncestors(src) : dirs' = dirs \cup left
        /\ Fatal(<<Step("MkdirAll src", FALSE, 0)>>)
        /\ UNCHANGED <<ki, skipping>>
     \/ /\ \E left \in PartialAncestors(prefix) :
             dirs' = dirs \cup Ancestors(src) \cup left
        /\ Fatal(<<Step("MkdirAll src", TRUE, 0), Step("MkdirAll prefix", FALSE, 0)>>)
        /\ UNCHANGED <<ki, skipping>>
     \/ /\ dirs' = dirs \cup Ancestors(src) \cup Ancestors(prefix)
        /\ skipping' = InitialSkipping(resumeArg)
        /\ ki' = 1
        /\ pc' = "package"
        /\ trace' = trace \o <<Step("MkdirAll src", TRUE, 0),
                               Step("MkdirAll prefix", TRUE, 0)>>
  /\ UNCHANGED <<args_vars, config, pi, pkg_locals, cwd, files, lastCmd>>

\* Line 117, the range is exhausted: on to the next profile.
EndProfile ==
  /\ pc = "package"
  /\ ki > Len(config.Packages)
  /\ pi' = pi + 1
  /\ ki' = 0
  /\ pc' = "profile"
  /\ UNCHANGED <<args_vars, config, skipping, pkg_locals, cwd, fs_vars,
                 lastCmd, trace>>

\* Lines 118-125: a package that is skipped.
SkipPackage ==
  /\ pc = "package"
  /\ ki <= Len(config.Packages)
  /\ NextSkipping(skipping, pkg, resumeArg)
  /\ skipping' = NextSkipping(skipping, pkg, resumeArg)
  /\ ki' = ki + 1
  /\ UNCHANGED <<pc, args_vars, config, pi, pkg_locals, cwd, fs_vars,
                 lastCmd, trace>>

\* Lines 118-138, "Preparing": the environment and the package directory.
Prepare ==
  /\ pc = "package"
  /\ ki <= Len(config.Packages)
  /\ ~NextSkipping(skipping, pkg, resumeArg)
  /\ skipping' = NextSkipping(skipping, pkg, resumeArg)
  /\ \E e \in EnvVectors(profile) : env' = e
  /\ format' = Empty
  /\ srcDir' = Empty
  /\ \/ /\ dirs' = dirs \cup Ancestors(pkgSrc)
        /\ pc' = "download"
        /\ trace' = trace \o <<Ev("MkdirAll pkgSrc", TRUE)>>
     \/ /\ \E left \in PartialAncestors(pkgSrc) : dirs' = dirs \cup left
        /\ Fatal(<<Ev("MkdirAll pkgSrc", FALSE)>>)
  /\ UNCHANGED <<args_vars, config, pi, ki, baseWd, cwd, files, lastCmd>>
\* Lines 140-183, "Downloading": resolve the format, create the archive
\* file, transfer, check the status, copy the body, close the file.
Download ==
  /\ pc = "download"
  /\ LET r == ResolveFormat(pkg)
         archive == PkgArchiveOf(profile, pkg, r.format)
     IN  /\ format' = r.format
         /\ \/ /\ ~r.ok
               /\ Fatal(<<Ev("format", FALSE)>>)
               /\ UNCHANGED files
            \/ /\ r.ok
               /\ Fatal(<<Ev("format", TRUE), Ev("Create", FALSE)>>)
               /\ UNCHANGED files
            \/ /\ r.ok
               /\ files' = files \cup {archive}
               /\ \/ Fatal(<<Ev("format", TRUE), Ev("Create", TRUE),
                             Ev("Get", FALSE)>>)
                  \/ \E code \in StatusCodes :
                       /\ ~StatusAccepted(code)
                       /\ Fatal(<<Ev("format", TRUE), Ev("Create", TRUE),
                                  Step("Get", TRUE, code), Ev("status", FALSE)>>)
                  \/ \E code \in StatusCodes :
                       /\ StatusAccepted(code)
                       /\ \/ Fatal(<<Ev("format", TRUE), Ev("Create", TRUE),
                                     Step("Get", TRUE, code), Ev("status", TRUE),
                                     Ev("Copy", FALSE)>>)
                          \/ Fatal(<<Ev("format", TRUE), Ev("Create", TRUE),
                                     Step("Get", TRUE, code), Ev("status", TRUE),
                                     Ev("Copy", TRUE), Ev("Close", FALSE)>>)
                          \/ /\ pc' = "extract"
                             /\ trace' = trace \o
                                  <<Ev("format", TRUE), Ev("Create", TRUE),
                                    Step("Get", TRUE, code), Ev("status", TRUE),
                                    Ev("Copy", TRUE), Ev("Close", TRUE)>>
  /\ UNCHANGED <<args_vars, config, pi, ki, skipping, env, srcDir, baseWd,
                 cwd, dirs, lastCmd>>

\* Lines 185-194, "Extracting": the flags for the format, then tar, which
\* unpacks the archive's top-level directories into pkgSrc.
Extract ==
  /\ pc = "extract"
  /\ LET t == tarFlagsForFormat(format)
     IN  \/ /\ ~t.ok
            /\ Fatal(<<Ev("tarFlags", FALSE)>>)
            /\ UNCHANGED <<dirs, lastCmd>>
         \/ /\ t.ok
            /\ lastCmd' = command("tar", env, <<t.flags, pkgArchive, s_C, pkgSrc>>)
            /\ \/ /\ Fatal(<<Ev("tarFlags", TRUE), Ev("tar", FALSE)>>)
                  /\ UNCHANGED dirs
               \/ /\ \E layout \in ArchiveLayouts :
                       dirs' = dirs \cup { Join(pkgSrc, d) : d \in layout }
                  /\ pc' = "locate"
                  /\ trace' = trace \o <<Ev("tarFlags", TRUE), Ev("tar", TRUE)>>
  /\ UNCHANGED <<args_vars, config, pi, ki, skipping, pkg_locals, cwd, files>>

\* Lines 196-214, "Locating": list pkgSrc, take the first directory, save
\* the working directory, join the directory's name to pkgSrc. With no
\* directory, dir is nil and dir.Name() panics.
Locate ==
  /\ pc = "locate"
  /\ LET dir == FirstDir(pkgSrc)
     IN  \/ /\ Fatal(<<Ev("ReadDir", FALSE)>>)
            /\ UNCHANGED <<srcDir, baseWd>>
         \/ /\ Fatal(<<Ev("ReadDir", TRUE), Ev("Getwd", FALSE)>>)
            /\ UNCHANGED <<srcDir, baseWd>>
         \/ /\ dir = NoDir
            /\ baseWd' = cwd
            /\ pc' = "panic"
            /\ trace' = trace \o <<Ev("ReadDir", TRUE), Ev("Getwd", TRUE),
                                   Ev("dir.Name", FALSE)>>
            /\ UNCHANGED srcDir
         \/ /\ dir # NoDir
            /\ baseWd' = cwd
            /\ srcDir' = Join(pkgSrc, dir)
            /\ pc' = "enter"
            /\ trace' = trace \o <<Ev("ReadDir", TRUE), Ev("Getwd", TRUE),
                                   Ev("dir.Name", TRUE)>>
  /\ UNCHANGED <<args_vars, config, pi, ki, skipping, env, format, cwd,
                 fs_vars, lastCmd>>

\* Lines 217-222: enter the source root.
Enter ==
  /\ pc = "enter"
  /\ \/ /\ Fatal(<<Ev("Chdir", FALSE)>>)
        /\ UNCHANGED cwd
     \/ /\ cwd' = srcDir
        /\ pc' = "configure"
        /\ trace' = trace \o <<Ev("Chdir", TRUE)>>
  /\ UNCHANGED <<args_vars, config, pi, ki, skipping, pkg_locals, fs_vars,
                 lastCmd>>

\* Lines 224-246, "Configuring".
Configure ==
  /\ pc = "configure"
  /\ lastCmd' = command("./configure", env, ConfigureArgs(profile, pkg))
  /\ \/ Fatal(<<Ev("./configure", FALSE)>>)
     \/ /\ pc' = "build"
        /\ trace' = trace \o <<Ev("./configure", TRUE)>>
  /\ UNCHANGED <<args_vars, config, pi, ki, skipping, pkg_locals, cwd, fs_vars>>

\* Faulty variant of Build: the result of make is not looked at.
BuildUnchecked ==
  /\ pc = "build"
  /\ lastCmd' = command("make", env, <<makeConcurrencyFlag>>)
  /\ \E ok \in BOOLEAN : trace' = trace \o <<Ev("make", ok)>>
  /\ pc' = "install"
  /\ UNCHANGED <<args_vars, config, pi, ki, skipping, pkg_locals, cwd, fs_vars>>

\* Lines 248-253, "Building".
Build ==
  /\ pc = "build"
  /\ lastCmd' = command("make", env, <<makeConcurrencyFlag>>)
  /\ \/ Fatal(<<Ev("make", FALSE)>>)
     \/ /\ pc' = "install"
        /\ trace' = trace \o <<Ev("make", TRUE)>>
  /\ UNCHANGED <<args_vars, config, pi, ki, skipping, pkg_locals, cwd, fs_vars>>

\* Lines 255-262, "Installing"; when the closure returns, the deferred
\* os.Chdir(baseWd) runs and the package loop goes on.
Install ==
  /\ pc = "install"
  /\ lastCmd' = command("make", env, <<s_install>>)
  /\ \/ /\ Fatal(<<Ev("make install", FALSE)>>)
        /\ UNCHANGED <<cwd, ki>>
     \/ /\ cwd' = baseWd
        /\ ki' = ki + 1
        /\ pc' = "package"
        /\ trace' = trace \o <<Ev("make install", TRUE)>>
  /\ UNCHANGED <<args_vars, config, pi, skipping, pkg_locals, fs_vars>>

\* Line 265: every profile has been dealt with.
AllDone ==
  /\ pc = "profile"
  /\ pi > Len(config.Profiles)
  /\ pc' = "done"
  /\ trace' = trace \o <<Step("All done!", TRUE, 0)>>
  /\ UNCHANGED <<args_vars, config, pi, ki, skipping, pkg_locals, cwd,
                 fs_vars, lastCmd>>

Next ==
  \/ ComputeFlag
  \/ Parse
  \/ ReadConfig
  \/ SkipProfile
  \/ EnterProfile
  \/ EndProfile
  \/ SkipPackage
  \/ Prepare
  \/ Download
  \/ Extract
  \/ Locate
  \/ Enter
  \/ Configure
  \/ Build
  \/ Install
  \/ AllDone

Spec == Init /\ [][Next]_vars
\* ============================================================ claims
Range(seq) == { seq[i] : i \in 1..Len(seq) }

\* The ./configure call of the current package has just been made.
ConfigureCalled == lastCmd.exe = "./configure"

\* s starts with one of the package's blacklist prefixes.
Blacklisted(k, s) ==
  \E i \in 1..Len(k.ConfigureBlacklist) :
    /\ Len(k.ConfigureBlacklist[i]) <= Len(s)
    /\ \A n \in 1..Len(k.ConfigureBlacklist[i]) : s[n] = k.ConfigureBlacklist[i][n]

\* C1 (as claimed): every package-level configure argument appears in the
\* argument vector passed to ./configure, also one that starts with a prefix
\* of the package's own ConfigureBlacklist.
C1_PackageArgsAllPassed ==
  ConfigureCalled =>
    \A i \in 1..Len(pkg.Configure) : pkg.Configure[i] \in Range(lastCmd.args)

\* C2 (as claimed): a profile argument that starts with a prefix of the
\* package's blacklist appears nowhere in the vector passed to ./configure,
\* and a profile argument that matches no prefix appears in it.
C2_BlacklistedProfileArgNowhere ==
  ConfigureCalled =>
    \A i \in 1..Len(profile.Configure) :
      IF Blacklisted(pkg, profile.Configure[i])
      THEN profile.Configure[i] \notin Range(lastCmd.args)
      ELSE profile.Configure[i] \in Range(lastCmd.args)

\* C2 (amended): a profile argument that starts with a prefix of the
\* package's blacklist does not appear among the arguments that follow the
\* leading --prefix entry, and a profile argument that matches no prefix
\* appears among them.
C2_BlacklistFiltersProfileArgs ==
  ConfigureCalled =>
    /\ lastCmd.args # <<>>
    /\ \A i \in 1..Len(profile.Configure) :
         IF Blacklisted(pkg, profile.Configure[i])
         THEN profile.Configure[i] \notin Range(Tail(lastCmd.args))
         ELSE profile.Configure[i] \in Range(Tail(lastCmd.args))

\* C2 witness: ./configure was called for a package whose blacklist matches
\* one argument of the profile and does not match another.
C2_Witness ==
  /\ ConfigureCalled
  /\ \E i, j \in 1..Len(profile.Configure) :
       /\ Blacklisted(pkg, profile.Configure[i])
       /\ ~Blacklisted(pkg, profile.Configure[j])

\* The elements of seq that no blacklist prefix of k matches, in order.
RECURSIVE Kept(_, _)
Kept(k, seq) ==
  IF seq = <<>> THEN <<>>
  ELSE IF Blacklisted(k, Head(seq)) THEN Kept(k, Tail(seq))
  ELSE <<Head(seq)>> \o Kept(k, Tail(seq))

\* C3 (as claimed): the vector passed to ./configure is the --prefix entry,
\* then the surviving profile arguments in declared order, then the package
\* arguments in declared order.
C3_ArgumentVectorOrder ==
  ConfigureCalled =>
    lastCmd.args = <<s_prefixFlag \o prefix>>
                     \o Kept(pkg, profile.Configure)
                     \o pkg.Configure
\* ------------------------------------------------------ resume (C4, C5)
Profiles == config.Profiles
Packages == config.Packages

\* The profile filter lets profile i through.
Chosen(i) == profileArg = Empty \/ profileArg = Profiles[i].Name

\* The resume name is the name of a package; FirstK is the first such.
ResumeNamesPackage == 
  /\ resumeArg # Empty
  /\ \E j \in 1..Len(Packages) : Packages[j].Name = resumeArg

FirstK == CHOOSE j \in 1..Len(Packages) :
            /\ Packages[j].Name = resumeArg
            /\ \A h \in 1..(j - 1) : Packages[h].Name # resumeArg

IsPrefix(a, b) == Len(a) <= Len(b) /\ SubSeq(b, 1, Len(a)) = a

IsPrepare(st) == st.op = "MkdirAll pkgSrc"
IsInstalled(st) == st.op = "make install" /\ st.ok

\* The <<profile, package>> pairs of the steps of tr, in order.
PairsOf(tr) == [n \in 1..Len(tr) |-> <<tr[n].prof, tr[n].pkg>>]

\* The pipelines a resumed run owes: per chosen profile, FirstK onward.
RECURSIVE OwedFrom(_)
OwedFrom(i) ==
  IF i > Len(Profiles) THEN <<>>
  ELSE (IF Chosen(i)
        THEN [n \in 1..(Len(Packages) - FirstK + 1) |-> <<i, FirstK + n - 1>>]
        ELSE <<>>) \o OwedFrom(i + 1)

InsideProfile == pc \notin {"flag", "parse", "readcfg", "profile"}

C4_Skipped ==
  ResumeNamesPackage =>
    /\ \A n \in 1..Len(trace) : trace[n].pkg >= 1 => trace[n].pkg >= FirstK
    /\ \A i \in 1..Len(Profiles), j \in 1..(FirstK - 1) :
         /\ PkgSrcOf(Profiles[i], Packages[j]) \notin dirs
         /\ \A q \in dirs \cup files :
              ~HasPrefix(q, PkgSrcOf(Profiles[i], Packages[j]) \o Slash)
    /\ IsPrefix(PairsOf(SelectSeq(trace, IsPrepare)), OwedFrom(1))
    /\ pc = "done" => PairsOf(SelectSeq(trace, IsInstalled)) = OwedFrom(1)

\* C4: with a resume name R that names a package, in every selected profile
\* no step is taken and nothing is created for a package before the first
\* package named R, the pipelines started are, in order, those of R and of
\* every later package, all of them completed when the run succeeds, and
\* inside a profile skipping never goes from false back to true.
C4_ResumeSemantics ==
  /\ []C4_Skipped
  /\ [][(InsideProfile /\ ~skipping) => ~skipping']_vars

\* C4 witness: a successful run over two selected profiles that skipped a
\* package before R and then built R and a later package.
C4_Witness ==
  /\ pc = "done"
  /\ \E n, m \in 1..Len(trace) :
       IsInstalled(trace[n]) /\ IsInstalled(trace[m]) /\ trace[n].prof # trace[m].prof
  /\ ResumeNamesPackage
  /\ FirstK > 1
  /\ FirstK < Len(Packages)
  /\ \E n \in 1..Len(trace) : IsInstalled(trace[n]) /\ trace[n].pkg = FirstK
  /\ \E n \in 1..Len(trace) : IsInstalled(trace[n]) /\ trace[n].pkg = Len(Packages)

\* C5: with a non-empty resume name that names no package, no step is ever
\* taken for any package of any profile and no command is run.
C5_UnknownResumeSkipsAll ==
  (resumeArg # Empty /\ \A j \in 1..Len(Packages) : Packages[j].Name # resumeArg)
    => /\ \A n \in 1..Len(trace) : trace[n].pkg = 0
       /\ lastCmd = NoCmd
       /\ files = {}
       /\ pc \in {"flag", "parse", "readcfg", "profile", "package", "done", "fatal"}

\* C5 witness: a run over a selected profile and two packages ended with
\* a resume name that names neither.
C5_Witness ==
  /\ pc = "done"
  /\ resumeArg # Empty
  /\ Len(Packages) >= 2
  /\ \A j \in 1..Len(Packages) : Packages[j].Name # resumeArg
  /\ \E i \in 1..Len(Profiles) : Chosen(i)
\* -------------------------------------------------- profile filter (C6)
\* Path q is d or lies below d.
AtOrBelow(q, d) == q = d \/ HasPrefix(q, d \o Slash)

\* The filter is set and is not the name of profile i.
FilteredOut(i) == profileArg # Empty /\ profileArg # Profiles[i].Name

NothingCreatedFor(i) ==
  \A q \in dirs \cup files :
    /\ ~AtOrBelow(q, Join(Join(outDir, s_src), Profiles[i].Name))
    /\ ~AtOrBelow(q, Join(outDir, Profiles[i].Name))

NoStepFor(i) == \A n \in 1..Len(trace) : trace[n].prof # i

\* An empty filter selects every profile: for each profile the loop has
\* passed or is in, the creation of its source directory was attempted.
EmptyFilterSelectsAll ==
  profileArg = Empty =>
    \A i \in 1..Len(Profiles) :
      (i < pi \/ (i = pi /\ InsideProfile)) =>
        \E n \in 1..Len(trace) :
          trace[n].prof = i /\ trace[n].op = "MkdirAll src"

\* C6 (as claimed): for a profile P the filter leaves out, neither
\* outDir/src/P nor outDir/P nor a path below them is created and no step
\* is taken for P; an empty filter selects every profile.
C6_FilteredProfileUntouched ==
  /\ \A i \in 1..Len(Profiles) :
       FilteredOut(i) => NothingCreatedFor(i) /\ NoStepFor(i)
  /\ EmptyFilterSelectsAll

\* C6 (amended): for a profile P the filter leaves out no step is taken,
\* and unless P is named "src" neither outDir/src/P nor outDir/P nor a path
\* below them is created; an empty filter selects every profile.
C6_FilteredProfileNoStep ==
  /\ \A i \in 1..Len(Profiles) :
       FilteredOut(i) =>
         /\ NoStepFor(i)
         /\ Profiles[i].Name # s_src => NothingCreatedFor(i)
  /\ EmptyFilterSelectsAll

\* C6 witness: a run that built a package under the profile the filter
\* names has ended, and another profile was left out.
C6_Witness ==
  /\ pc = "done"
  /\ files # {}
  /\ \E i \in 1..Len(Profiles) : FilteredOut(i) /\ Profiles[i].Name # s_src

\* ----------------------------------------------------------- format (C7)
\* The archive of the current package has been downloaded.
Downloaded == pc \in {"extract", "locate", "enter", "configure", "build", "install"}

ArchiveWritten ==
  Join(Join(Join(Join(outDir, s_src), profile.Name), pkg.Name),
       pkg.Name \o s_dot \o format) \in files

\* C7 (as claimed): the explicit Format when it is non-empty; otherwise
\* tar.xz for a URL containing ".tar.xz" and tar.gz for a URL containing
\* ".tar.gz", also for a URL containing both; the archive is written to
\* <packageSrcDir>/<packageName>.<format>.
C7_FormatAsClaimed ==
  Downloaded =>
    /\ pkg.Format # Empty => format = pkg.Format
    /\ (pkg.Format = Empty /\ Contains(pkg.Sources, s_dot_tar_xz)
          /\ ~Contains(pkg.Sources, s_dot_tar_gz)) => format = s_tar_xz
    /\ (pkg.Format = Empty /\ Contains(pkg.Sources, s_dot_tar_gz))
          => format = s_tar_gz
    /\ ArchiveWritten

\* C7 (amended): the explicit Format when it is non-empty; otherwise tar.xz
\* for a URL containing ".tar.xz", also when it contains ".tar.gz" too, and
\* tar.gz for a URL containing ".tar.gz" and not ".tar.xz"; the archive is
\* written to <packageSrcDir>/<packageName>.<format>.
C7_FormatResolved ==
  Downloaded =>
    /\ pkg.Format # Empty => format = pkg.Format
    /\ (pkg.Format = Empty /\ Contains(pkg.Sources, s_dot_tar_xz))
          => format = s_tar_xz
    /\ (pkg.Format = Empty /\ Contains(pkg.Sources, s_dot_tar_gz)
          /\ ~Contains(pkg.Sources, s_dot_tar_xz)) => format = s_tar_gz
    /\ ArchiveWritten

\* C7 witness: the archive of a package without explicit Format whose URL
\* contains both ".tar.gz" and ".tar.xz" has been downloaded.
C7_Witness ==
  /\ Downloaded
  /\ pkg.Format = Empty
  /\ Contains(pkg.Sources, s_dot_tar_xz)
  /\ Contains(pkg.Sources, s_dot_tar_gz)

\* ------------------------------------------------------- failures (C8)
\* C8: a step that failed is the last step of the run, the run has ended
\* without reporting success, and a run that reported success has no
\* failed step.
C8_FirstFailureEndsRun ==
  \A n \in 1..Len(trace) :
    ~trace[n].ok =>
      /\ n = Len(trace)
      /\ pc \in {"fatal", "panic"}
      /\ \A m \in 1..Len(trace) : trace[m].op # "All done!"

\* C8 witness: a run ended on a failed make after an earlier package had
\* been installed.
C8_Witness ==
  /\ pc = "fatal"
  /\ trace[Len(trace)].op = "make"
  /\ \E n \in 1..Len(trace) : IsInstalled(trace[n])

\* ------------------------------------------------------- locating (C9)
\* Extraction left no directory among the children of the package
\* directory and the run went on to locate the source root.
NoTopLevelDir ==
  /\ trace # <<>>
  /\ trace[Len(trace)].op = "dir.Name"
  /\ ~trace[Len(trace)].ok

\* C9 (as claimed): with no directory to locate the run ends as a reported
\* fatal error, with the working directory unchanged and without running
\* configure, build or install for the package.
C9_NoDirIsFatalError ==
  NoTopLevelDir =>
    /\ pc = "fatal"
    /\ cwd = startWd
    /\ lastCmd.exe = "tar"

\* ---------------------------------------------------------- build (C10)
\* C10 (as claimed): make is run with the single argument "-j<N>", N being
\* the concurrency level the parsed command line holds (2 by default).
C10_ConcurrencyFlagFromCommandLine ==
  (lastCmd.exe = "make" /\ lastCmd.args # <<s_install>>) =>
    lastCmd.args = <<s_j \o concurrencyLevelArg>>

\* ----------------------------------------------- working directory (C11)
\* configure, build or install of a package is about to run or running.
InsideSourceRoot == pc \in {"configure", "build", "install"}

\* C11 (as claimed): outside configure, build and install of a package, and
\* in particular when the run has ended in success or in failure, the working
\* directory is the one the run started in.
C11_WorkingDirectoryRestored ==
  ~InsideSourceRoot => cwd = startWd

\* ---------------------------------------------------- environment (C12)
s_PREFIX_eq == <<"P", "R", "E", "F", "I", "X", "=">>

IsCommand(st) == st.op \in {"tar", "./configure", "make", "make install"}

\* A subprocess has just been run: the last step is a call of command().
CommandJustRun == trace # <<>> /\ IsCommand(trace[Len(trace)])

\* The profile that subprocess was run for.
CommandProfile == Profiles[trace[Len(trace)].prof]

C12_Inv ==
  CommandJustRun =>
    LET e == lastCmd.env
        P == CommandProfile
    IN  /\ e = env
        /\ Len(e) = Cardinality(P.Env) + 1
        /\ e[Len(e)] = s_PREFIX_eq \o Join(outDir, P.Name)
        /\ \A kv \in P.Env :
             \E n \in 1..(Len(e) - 1) : e[n] = kv[1] \o <<"=">> \o kv[2]

\* A package's pipeline is past Preparing.
InPipeline ==
  pc \in {"download", "extract", "locate", "enter", "configure", "build", "install"}

\* C12: the environment of every subprocess holds one entry per environment
\* variable of the profile and then, as its last element, PREFIX=<install
\* prefix of the profile>; it is the vector composed for the package, which
\* stays the same from tar to make install.
C12_EnvironmentVector ==
  /\ []C12_Inv
  /\ [][InPipeline => (env' = env)]_vars

\* C12 witness: make install has run under a profile that declares its own
\* PREFIX variable.
C12_Witness ==
  /\ CommandJustRun
  /\ trace[Len(trace)].op = "make install"
  /\ \E kv \in CommandProfile.Env : kv[1] = s_PREFIX

\* ---------------------------------------------------- termination (C13)
Succeeded  == pc = "done"
Failed     == pc \in {"fatal", "panic"}
Terminated == Succeeded \/ Failed

StageNo ==
  CASE pc = "flag"      -> 0
    [] pc = "parse"     -> 1
    [] pc = "readcfg"   -> 2
    [] pc = "profile"   -> 3
    [] pc = "package"   -> 4
    [] pc = "download"  -> 5
    [] pc = "extract"   -> 6
    [] pc = "locate"    -> 7
    [] pc = "enter"     -> 8
    [] pc = "configure" -> 9
    [] pc = "build"     -> 10
    [] pc = "install"   -> 11
    [] OTHER            -> 12

\* How far the run has come: profiles first, then packages, then the 13
\* positions of StageNo. Every step of the run raises it, and it cannot pass RankLimit.
Rank == (pi * (Len(Packages) + 2) + ki) * 13 + StageNo
RankLimit == ((Len(Profiles) + 2) * (Len(Packages) + 2)) * 13

\* The packages profile i owes: none when the filter leaves it out or the
\* resume name names no package, FirstK onward when it names one, all of
\* them without a resume name.
OwedPackages(i) ==
  IF ~Chosen(i) THEN {}
  ELSE IF resumeArg = Empty THEN 1..Len(Packages)
  ELSE IF ResumeNamesPackage THEN FirstK..Len(Packages)
  ELSE {}

AllOwedInstalled ==
  \A i \in 1..Len(Profiles) : \A j \in OwedPackages(i) :
    \E n \in 1..Len(trace) :
      IsInstalled(trace[n]) /\ trace[n].prof = i /\ trace[n].pkg = j

C13_Inv ==
  /\ Terminated \/ ENABLED Next
  /\ Terminated => ~ENABLED Next
  /\ ~(Succeeded /\ Failed)
  /\ Rank <= RankLimit
  /\ Succeeded => AllOwedInstalled
  /\ Succeeded <=> (\E n \in 1..Len(trace) : trace[n].op = "All done!")

\* C13: every external call returning, the run terminates: each step brings
\* it closer to its end, it stops only in one of the two outcomes Failed or
\* success reported, never both, and success is reported only when every
\* package that was selected and not skipped, in every selected profile, has
\* completed its Installing stage.
C13_Termination ==
  /\ []C13_Inv
  /\ [][Rank' > Rank]_vars

\* C13 witness: success was reported after two packages were installed under
\* each of two profiles.
C13_Witness ==
  /\ Succeeded
  /\ Cardinality({ n \in 1..Len(trace) : IsInstalled(trace[n]) }) >= 4

\* ---------------------------------------------------- stage order (C14)
\* The steps of one package's pipeline, in the order main takes them:
\* Preparing (1), Downloading (2-7), Extracting (8-9), Locating (10-12),
\* entering the source root (13), Configuring, Building, Installing.
PipelineOps ==
  <<"MkdirAll pkgSrc", "format", "Create", "Get", "status", "Copy", "Close",
    "tarFlags", "tar", "ReadDir", "Getwd", "dir.Name", "Chdir",
    "./configure", "make", "make install">>

SamePackage(a, b) == a.prof = b.prof /\ a.pkg = b.pkg

\* C14: the first step taken for a package under a profile is Preparing and
\* is taken once; every other step is the next one of the pipeline's order
\* and directly follows the step before it, which succeeded: make install
\* runs only after make succeeded and make only after ./configure succeeded.
C14_StageOrder ==
  \A n \in 1..Len(trace) :
    trace[n].pkg >= 1 =>
      \E k \in 1..Len(PipelineOps) :
        /\ trace[n].op = PipelineOps[k]
        /\ IF k = 1
           THEN \A m \in 1..(n - 1) : ~SamePackage(trace[m], trace[n])
           ELSE /\ n > 1
                /\ SamePackage(trace[n - 1], trace[n])
                /\ trace[n - 1].op = PipelineOps[k - 1]
                /\ trace[n - 1].ok

\* C14 witness: a package went through every stage up to a successful
\* make install.
C14_Witness ==
  \E n \in Len(PipelineOps)..Len(trace) :
    /\ IsInstalled(trace[n])
    /\ \A k \in 1..Len(PipelineOps) :
         /\ trace[n - Len(PipelineOps) + k].op = PipelineOps[k]
         /\ SamePackage(trace[n - Len(PipelineOps) + k], trace[n])

\* The pipelines a run without a resume name owes: every package of every
\* chosen profile, profile order first and package order second.
RECURSIVE AllPairsFrom(_)
AllPairsFrom(i) ==
  IF i > Len(Profiles) THEN <<>>
  ELSE (IF Chosen(i)
        THEN [n \in 1..Len(Packages) |-> <<i, n>>]
        ELSE <<>>) \o AllPairsFrom(i + 1)

\* Both directories of the profile of step n were created before step n.
ProfileDirsMadeBefore(n) ==
  \E a \in 1..(n - 1), b \in 1..(n - 1) :
    /\ a < b
    /\ trace[a].prof = trace[n].prof /\ trace[b].prof = trace[n].prof
    /\ trace[a].op = "MkdirAll src" /\ trace[a].ok
    /\ trace[b].op = "MkdirAll prefix" /\ trace[b].ok

\* C15: with no resume name the pipelines started are, in order, those of
\* every package of every selected profile, profile order first and package
\* order second, and a successful run has completed exactly these, each
\* once; a pipeline starts only after every pipeline started before it was
\* completed and after the source and prefix directories of its profile
\* were created.
C15_FullRunOrder ==
  (resumeArg = Empty /\ pc \notin {"flag", "parse", "readcfg"}) =>
    /\ IsPrefix(PairsOf(SelectSeq(trace, IsPrepare)), AllPairsFrom(1))
    /\ pc = "done" => PairsOf(SelectSeq(trace, IsInstalled)) = AllPairsFrom(1)
    /\ \A n \in 1..Len(trace) :
         IsPrepare(trace[n]) =>
           /\ ProfileDirsMadeBefore(n)
           /\ SrcOf(Profiles[trace[n].prof]) \in dirs
           /\ PrefixOf(Profiles[trace[n].prof]) \in dirs
           /\ \A m \in 1..(n - 1) :
                IsPrepare(trace[m]) =>
                  \E h \in (m + 1)..(n - 1) :
                    IsInstalled(trace[h]) /\ SamePackage(trace[h], trace[m])

\* C15 witness: a successful run without a resume name that built two
\* packages under each of two profiles.
C15_Witness ==
  /\ pc = "done"
  /\ resumeArg = Empty
  /\ Len(Profiles) = 2 /\ Chosen(1) /\ Chosen(2)
  /\ Len(Packages) = 2
  /\ Len(SelectSeq(trace, IsInstalled)) = 4

\* Package k gives no format and its URL names neither archive suffix.
NoFormatKnown(k) ==
  /\ k.Format = Empty
  /\ ~Contains(k.Sources, s_dot_tar_xz)
  /\ ~Contains(k.Sources, s_dot_tar_gz)

\* Step n belongs to a package without a known format.
OfFormatlessPackage(n) ==
  trace[n].pkg >= 1 /\ NoFormatKnown(Packages[trace[n].pkg])

\* C16: for a package with no explicit format whose URL contains neither
\* ".tar.xz" nor ".tar.gz", the only steps are Preparing and a failed format
\* resolution, which ends the run as a fatal error: no format is set, no
\* file is created in or below the package's directory, no transfer is
\* started and no later stage runs.
C16_UnknownFormatIsFatal ==
  \A n \in 1..Len(trace) :
    OfFormatlessPackage(n) =>
      /\ trace[n].op \in {"MkdirAll pkgSrc", "format"}
      /\ (trace[n].op = "MkdirAll pkgSrc" /\ trace[n].ok) =>
           \/ n = Len(trace) /\ pc = "download"
           \/ n + 1 = Len(trace) /\ trace[n + 1].op = "format"
      /\ trace[n].op = "format" =>
           /\ ~trace[n].ok
           /\ n = Len(trace)
           /\ pc = "fatal"
           /\ format = Empty
           /\ \A q \in files :
                ~AtOrBelow(q, PkgSrcOf(Profiles[trace[n].prof],
                                       Packages[trace[n].pkg]))

\* C16 witness: the run ended at the format resolution of such a package,
\* after another package had been downloaded and installed.
C16_Witness ==
  /\ pc = "fatal"
  /\ trace # <<>>
  /\ trace[Len(trace)].op = "format"
  /\ OfFormatlessPackage(Len(trace))
  /\ \E n \in 1..Len(trace) : IsInstalled(trace[n])

\* The transfer of step n reported a success status (2xx).
SuccessStatus(n) == trace[n].ok /\ trace[n].status \in 200..299

\* C17: a transfer that returns an error or a status outside 2xx ends the
\* run with no Extracting step, and every transfer that reports a 2xx
\* status passes the status check and goes on to write the body to the
\* archive file.
C17_FailsExactlyOnNonSuccess ==
  \A n \in 1..Len(trace) :
    trace[n].op = "Get" =>
      IF SuccessStatus(n)
      THEN /\ n + 2 <= Len(trace)
           /\ trace[n + 1].op = "status" /\ trace[n + 1].ok
           /\ trace[n + 2].op = "Copy"
      ELSE /\ pc = "fatal"
           /\ \A m \in (n + 1)..Len(trace) : trace[m].op = "status"

\* The entries a profile's environment stands for, PREFIX included.
EntriesOf(P) ==
  { kv[1] \o <<"=">> \o kv[2] : kv \in P.Env }
    \cup { s_PREFIX_eq \o Join(outDir, P.Name) }

\* C18: the environment handed to every subprocess is never empty, so the
\* subprocess never inherits the environment of the run itself; its entries
\* are exactly the profile's variables and PREFIX.
C18_EnvironmentNeverEmpty ==
  CommandJustRun =>
    /\ lastCmd.env # <<>>
    /\ Range(lastCmd.env) = EntriesOf(CommandProfile)
    /\ \E n \in 1..Len(lastCmd.env) : HasPrefix(lastCmd.env[n], s_PREFIX_eq)

\* C18 witness: tar has run under a profile that declares no variables, so
\* PREFIX is the only entry of its environment.
C18_Witness ==
  /\ CommandJustRun
  /\ trace[Len(trace)].op = "tar"
  /\ CommandProfile.Env = {}
  /\ Len(lastCmd.env) = 1

\* Package k declares a format, and it is not one tar is run for.
OddFormat(k) == k.Format # Empty /\ k.Format \notin {s_tar_gz, s_tar_xz}

\* The package and the profile of step n.
PackageAt(n) == Packages[trace[n].pkg]
ProfileAt(n) == Profiles[trace[n].prof]

\* C19: a package whose explicit format is neither tar.gz nor tar.xz passes
\* format resolution; its archive <packageSrcDir>/<name>.<Format> is created
\* and downloaded, the flags lookup of Extracting then fails and ends the
\* run, and tar is never run for it. For tar.gz and tar.xz the lookup
\* succeeds and tar is called with "xf" as its first argument.
C19_OddFormatFailsAtExtract ==
  /\ \A n \in 1..Len(trace) :
       (trace[n].pkg >= 1 /\ OddFormat(PackageAt(n))) =>
         /\ trace[n].op # "tar"
         /\ trace[n].op = "format" => trace[n].ok
         /\ trace[n].op = "Create" /\ trace[n].ok =>
              Join(PkgSrcOf(ProfileAt(n), PackageAt(n)),
                   PackageAt(n).Name \o <<".">> \o PackageAt(n).Format) \in files
         /\ trace[n].op = "Close" /\ trace[n].ok =>
              /\ n + 1 <= Len(trace) => trace[n + 1].op = "tarFlags"
              /\ n + 1 > Len(trace) => pc = "extract"
         /\ trace[n].op = "tarFlags" =>
              /\ ~trace[n].ok
              /\ n = Len(trace)
              /\ pc = "fatal"
              /\ trace[n - 1].op = "Close" /\ trace[n - 1].ok
  /\ \A n \in 1..Len(trace) :
       (trace[n].op = "tarFlags" /\ ~OddFormat(PackageAt(n))) => trace[n].ok
  /\ (CommandJustRun /\ trace[Len(trace)].op = "tar") =>
       /\ lastCmd.args[1] = <<"x", "f">>
       /\ format \in {s_tar_gz, s_tar_xz}

\* C19 witness: the run ended at the flags lookup for a package whose
\* explicit format is "zip", with its downloaded archive in place.
C19_Witness ==
  /\ pc = "fatal"
  /\ trace # <<>>
  /\ trace[Len(trace)].op = "tarFlags"
  /\ OddFormat(PackageAt(Len(trace)))
  /\ pkgArchive \in files

\* The configuration was read.
ConfigLoaded == \E n \in 1..Len(trace) : trace[n].op = "ReadConfig" /\ trace[n].ok

\* The profile filter is set and is the name of no profile.
FilterUnmatched ==
  profileArg # Empty /\ \A i \in 1..Len(Profiles) : Profiles[i].Name # profileArg

\* The resume name is set and is the name of no package.
ResumeUnmatched ==
  resumeArg # Empty /\ \A j \in 1..Len(Packages) : Packages[j].Name # resumeArg

\* The source and prefix directories of every selected profile exist.
ChosenProfileDirsExist ==
  \A i \in 1..Len(Profiles) :
    Chosen(i) => SrcOf(Profiles[i]) \in dirs /\ PrefixOf(Profiles[i]) \in dirs

\* The run ended because a profile's directory could not be created.
ProfileDirFailed ==
  /\ pc = "fatal"
  /\ trace[Len(trace)].op \in {"MkdirAll src", "MkdirAll prefix"}
  /\ ~trace[Len(trace)].ok
  /\ Chosen(trace[Len(trace)].prof)

\* C20: a run whose profile filter names no profile, or whose resume name
\* names no package, takes no pipeline step, never ends in an error, and
\* in the resume case ends with the source and prefix directories of every
\* selected profile created.
C20_UnmatchedNameAlwaysSucceeds ==
  (ConfigLoaded /\ (FilterUnmatched \/ ResumeUnmatched)) =>
    /\ \A n \in 1..Len(trace) : trace[n].pkg = 0
    /\ ~Failed
    /\ (Succeeded /\ ResumeUnmatched) => ChosenProfileDirsExist

\* C20, amended: such a run takes no pipeline step and reports no error for
\* the unmatched name; with an unmatched filter nothing is created and the
\* run cannot fail, and with an unmatched resume name the run fails only
\* when a selected profile's source or prefix directory cannot be created,
\* and otherwise ends in success with these directories created.
C20_UnmatchedNameNoPipeline ==
  (ConfigLoaded /\ (FilterUnmatched \/ ResumeUnmatched)) =>
    /\ \A n \in 1..Len(trace) : trace[n].pkg = 0
    /\ lastCmd = NoCmd
    /\ files = {}
    /\ FilterUnmatched => (~Failed /\ dirs = {})
    /\ Failed => ProfileDirFailed
    /\ (Succeeded /\ ResumeUnmatched) => ChosenProfileDirsExist

\* C20 witness: a run over two selected profiles and two packages ended in
\* success with a resume name that names neither package.
C20_Witness ==
  /\ Succeeded
  /\ ResumeUnmatched
  /\ Len(Profiles) = 2 /\ Chosen(1) /\ Chosen(2)
  /\ Len(Packages) >= 2
  /\ ChosenProfileDirsExist
====
